---- MODULE Spec2Model ----
(***************************************************************************)
(* mlcp - Music Library "Crud" Purge (src/src/main.rs).                    *)
(*                                                                         *)
(* A file name is a sequence of one-character strings, a path is a         *)
(* sequence of file names (its components, relative to the working         *)
(* directory), and the file system is a function from the paths that exist *)
(* to their entries.  The run of main is a state machine: the start-up     *)
(* checks, the enumeration, the classification, one step per purge         *)
(* candidate, and the final exit.                                          *)
(***************************************************************************)
EXTENDS Integers, Sequences, FiniteSets, TLC

(***************************************************************************)
(* Bounds of the model.                                                    *)
(***************************************************************************)
\* Largest number of files drawn from FILE_UNIVERSE into the initial library.
MaxFiles == 2

\* The number of crud files of the library of the long run.
MaxCandidates == 256

\* Largest number of mkdir calls that succeed before create_dir_all is made
\* to fail; with that many successes or more it succeeds.
MaxMkdirs == 2

(***************************************************************************)
(* Constants of main.rs, lines 16-60.                                      *)
(***************************************************************************)
MUSIC_FILE_TYPES ==
    << <<"a","a","c">>, <<"a","i","f","f">>, <<"a","p","e">>, <<"d","f","f">>,
       <<"d","s","d">>, <<"d","s","f">>, <<"d","x","d">>, <<"f","l","a","c">>,
       <<"i","s","o">>, <<"m","4","a">>, <<"m","4","p">>, <<"m","p","3">>,
       <<"o","g","a">>, <<"o","g","g">>, <<"w","a","v">>, <<"w","m","a">>,
       <<"w","m","v">> >>

AUDIO_FILE_TYPES ==
    << <<"3","g","p">>, <<"a","a">>, <<"a","a","x">>, <<"a","c","t">>,
       <<"a","m","r">>, <<"a","u">>, <<"a","w","b">>, <<"d","c","t">>,
       <<"d","s","s">>, <<"d","v","f">>, <<"g","s","m">>, <<"i","k","l","a","x">>,
       <<"i","v","s">>, <<"m","4","b">>, <<"m","m","f">>, <<"m","p","c">>,
       <<"m","s","v">>, <<"m","o","g","g">>, <<"o","p","u","s">>, <<"r","a">>,
       <<"r","m">>, <<"r","a","w">>, <<"s","l","n">>, <<"t","t","a">>,
       <<"v","o","x">>, <<"w","m","v">>, <<"w","v">>, <<"w","e","b","m">> >>

DOCUMENT_FILE_TYPES ==
    << <<"t","x","t">>, <<"p","d","f">> >>

ALBUM_ART_FILENAMES ==
    << <<"a","l","b","u","m">>, <<"c","o","v","e","r">>,
       <<"s","m","a","l","l","_","c","o","v","e","r">>,
       <<"l","a","r","g","e","_","c","o","v","e","r">>,
       <<"f","o","l","d","e","r">>, <<"t","h","u","m","b">>,
       <<"a","l","b","u","m","a","r","t","s","m","a","l","l">>,
       <<"a","l","b","u","m","a","r","t","m","e","d","i","u","m">>,
       <<"a","l","b","u","m","a","r","t","l","a","r","g","e">> >>

ALBUM_ART_EXTENSIONS ==
    << <<"j","p","g">>, <<"j","p","e","g">>, <<"p","n","g">> >>

\* Operation indicators.
PURGE == "PURGED"
BACKUP == "BACKED-UP"
SIMULATE == "SIMULATED"

\* The glob pattern "**/*.*", as its two components.
WILDCARD == << <<"*","*">>, <<"*",".","*">> >>
NO_PATH == << >>
NO_EXTENSION == << >>
NO_FILE_NAME == << >>
NO_CHAR == " "
RES_FORK_1 == "."
RES_FORK_2 == "_"

\* Exit codes.
SUCCESS == 0
PATH_DOES_NOT_EXIST == 1

(***************************************************************************)
(* Characters: str::to_lowercase and the byte order of file names.         *)
(***************************************************************************)
UpperChars ==
    <<"A","B","C","D","E","F","G","H","I","J","K","L","M",
      "N","O","P","Q","R","S","T","U","V","W","X","Y","Z">>

LowerChars ==
    <<"a","b","c","d","e","f","g","h","i","j","k","l","m",
      "n","o","p","q","r","s","t","u","v","w","x","y","z">>

\* The characters of the model's file names, in ascending byte (ASCII) order.
ByteOrder ==
    <<".","0","1","2","3","4","5","6","7","8","9",
      "A","B","C","D","E","F","G","H","I","J","K","L","M",
      "N","O","P","Q","R","S","T","U","V","W","X","Y","Z","_",
      "a","b","c","d","e","f","g","h","i","j","k","l","m",
      "n","o","p","q","r","s","t","u","v","w","x","y","z">>

IndexOf(s, c) == CHOOSE i \in 1..Len(s) : s[i] = c

Contains(s, x) == \E i \in 1..Len(s) : s[i] = x

Range(s) == { s[i] : i \in 1..Len(s) }

\* char::to_lowercase
LowerChar(c) == IF Contains(UpperChars, c) THEN LowerChars[IndexOf(UpperChars, c)] ELSE c

\* str::to_lowercase
to_lowercase(s) == [ i \in 1..Len(s) |-> LowerChar(s[i]) ]

\* Ord::cmp on file names: lexicographic on bytes, a proper prefix first.
NameLess(a, b) ==
    \E i \in 1..(Len(b)) :
        /\ i <= Len(a) + 1
        /\ \A j \in 1..(i - 1) : a[j] = b[j]
        /\ \/ i = Len(a) + 1
           \/ IndexOf(ByteOrder, a[i]) < IndexOf(ByteOrder, b[i])

(***************************************************************************)
(* std::path: Option values, file_name, extension, join, strip_prefix,     *)
(* parent.                                                                 *)
(***************************************************************************)
None == [some |-> FALSE, val |-> << >>]

Some(v) == [some |-> TRUE, val |-> v]

\* Option::unwrap_or
unwrap_or(opt, default) == IF opt.some THEN opt.val ELSE default

\* Path::file_name: the last component, None for the empty path.
file_name(path) == IF Len(path) = 0 THEN None ELSE Some(path[Len(path)])

\* The position of the last '.' of a name, 0 when it has none.
LastDot(name) ==
    IF Contains(name, ".")
    THEN CHOOSE i \in 1..Len(name) :
             /\ name[i] = "."
             /\ \A j \in (i + 1)..Len(name) : name[j] # "."
    ELSE 0

\* Path::extension: the text after the last '.' of the file name; None when
\* there is no file name, no '.', or the only '.' is the first character.
extension(path) ==
    LET fname == file_name(path) IN
    IF ~fname.some THEN None
    ELSE LET n == fname.val
             d == LastDot(n)
         IN  IF d <= 1 THEN None ELSE Some(SubSeq(n, d + 1, Len(n)))

\* PathBuf::join for relative paths.
join(base, rel) == base \o rel

IsPrefix(base, path) ==
    /\ Len(base) <= Len(path)
    /\ SubSeq(path, 1, Len(base)) = base

\* Path::strip_prefix: Some(remainder) when base is a component-wise prefix.
strip_prefix(path, base) ==
    IF IsPrefix(base, path) THEN Some(SubSeq(path, Len(base) + 1, Len(path))) ELSE None

\* Path::parent: the path without its last component, None for the empty path.
parent(path) == IF Len(path) = 0 THEN None ELSE Some(SubSeq(path, 1, Len(path) - 1))

\* opt_osstr_to_string: the wrapped string, or the default when None.
opt_osstr_to_string(opt_osstr, default) == unwrap_or(opt_osstr, default)

(***************************************************************************)
(* The file system: std::fs and Path::exists / Path::is_dir.               *)
(* An entry is a directory or a regular file with its contents (a sequence *)
(* of bytes).  The working directory itself (the empty path) always exists *)
(* and is not an entry.                                                    *)
(***************************************************************************)
DIR == [kind |-> "dir", data |-> << >>]

FileOf(d) == [kind |-> "file", data |-> d]

\* The component "." of a path (Component::CurDir); Path keeps it only as
\* the first component, as in "./lib".
CUR_DIR == <<".">>

\* The entry a path names: its "." components do not move the lookup.
Resolved(path) == SelectSeq(path, LAMBDA c : c # CUR_DIR)

\* Path::exists
exists(f, path) == Resolved(path) \in DOMAIN f

\* Path::is_dir
is_dir(f, path) == Resolved(path) \in DOMAIN f /\ f[Resolved(path)].kind = "dir"

is_file(f, path) == Resolved(path) \in DOMAIN f /\ f[Resolved(path)].kind = "file"

\* The file system f with path bound to entry e.
WithEntry(f, path, e) == [ q \in (DOMAIN f) \cup {path} |-> IF q = path THEN e ELSE f[q] ]

\* The file system f without path.
Without(f, path) == [ q \in (DOMAIN f) \ {path} |-> f[q] ]

\* The non-empty prefixes of a path, shortest first.
Prefixes(path) == [ i \in 1..Len(path) |-> SubSeq(path, 1, i) ]

\* A place where an entry can be created or opened for writing: its parent
\* is the working directory or an existing directory.
ParentIsDir(f, path) ==
    /\ Len(path) > 0
    /\ (Len(path) = 1 \/ is_dir(f, SubSeq(path, 1, Len(path) - 1)))

\* fs::create_dir_all(dir).  It fails without creating anything when a
\* prefix of dir is a regular file; otherwise it creates the missing
\* prefixes from the top down, and mkdirs is the number of mkdir calls the
\* system lets succeed before one fails (permissions, full or read-only
\* volume).  The empty path is created trivially.
create_dir_all(f, dir, mkdirs) ==
    LET pre == Prefixes(dir)
        missing == SelectSeq(pre, LAMBDA q : ~exists(f, q))
        made == IF mkdirs < Len(missing) THEN mkdirs ELSE Len(missing)
        created == { missing[i] : i \in 1..made }
    IN  IF \E i \in 1..Len(pre) : is_file(f, pre[i])
        THEN [ok |-> FALSE, fs |-> f]
        ELSE [ok |-> made = Len(missing),
              fs |-> [ q \in (DOMAIN f) \cup created |->
                          IF q \in created THEN DIR ELSE f[q] ]]

\* fs::copy(from, to).  The source is opened for reading (it must be a
\* regular file), then the target is opened with create + truncate (it must
\* not be a directory and its parent must be one), then the bytes are
\* copied.  outcome is what the system does with a copy that can start:
\* "ok", "fail_open" (an open is refused, nothing changes) or "fail_write"
\* (the target was created or truncated, then an error).  Copying a file
\* onto itself truncates it before anything is read.
copy(f, from, to, outcome) ==
    IF \/ ~is_file(f, from)
       \/ is_dir(f, to)
       \/ ~ParentIsDir(f, to)
       \/ outcome = "fail_open"
    THEN [ok |-> FALSE, fs |-> f]
    ELSE IF outcome = "fail_write"
    THEN [ok |-> FALSE, fs |-> WithEntry(f, to, FileOf(<< >>))]
    ELSE [ok |-> TRUE,
          fs |-> WithEntry(f, to, FileOf(IF from = to THEN << >> ELSE f[from].data))]

\* fs::remove_file(path): unlinks a regular file; outcome is "ok" or "fail"
\* (permissions, read-only volume).
remove_file(f, path, outcome) ==
    IF ~is_file(f, path) \/ outcome # "ok"
    THEN [ok |-> FALSE, fs |-> f]
    ELSE [ok |-> TRUE, fs |-> Without(f, path)]

(***************************************************************************)
(* glob("<library_path>/**/*.*")                                           *)
(***************************************************************************)
\* Pattern "*.*" on one path component: any name with a '.' in it.
MatchesStarDotStar(name) == Contains(name, ".")

\* The entries directly inside directory dir.
Children(f, dir) ==
    { q \in DOMAIN f : Len(q) = Len(dir) + 1 /\ IsPrefix(dir, q) }

\* A set of sibling paths as a sequence in ascending order of file name.
RECURSIVE SortedByName(_)
SortedByName(S) ==
    IF S = {} THEN << >>
    ELSE LET m == CHOOSE x \in S :
                      \A y \in S \ {x} : NameLess(x[Len(x)], y[Len(y)])
         IN  <<m>> \o SortedByName(S \ {m})

\* The walk of "**" followed by "*.*" below dir: the children in ascending
\* order of name; a child is yielded when its name matches "*.*", and a
\* child directory is descended into whether or not it was yielded.
RECURSIVE GlobWalk(_, _)
RECURSIVE GlobWalkSeq(_, _)
GlobWalk(f, dir) == GlobWalkSeq(f, SortedByName(Children(f, dir)))

GlobWalkSeq(f, children) ==
    IF Len(children) = 0 THEN << >>
    ELSE LET c == Head(children) IN
         (IF MatchesStarDotStar(c[Len(c)]) THEN <<c>> ELSE << >>)
         \o (IF is_dir(f, c) THEN GlobWalk(f, c) ELSE << >>)
         \o GlobWalkSeq(f, Tail(children))

\* get_library_paths: the paths glob yields for library_path joined with
\* WILDCARD.  glob matches a leading "." of the pattern against the working
\* directory and builds the paths it yields from the components after it:
\* for "./lib/**/*.*" they start with "lib", not with "./lib".
get_library_paths(f, library_path) ==
    IF is_dir(f, library_path) THEN GlobWalk(f, Resolved(library_path)) ELSE << >>

(***************************************************************************)
(* The keep lists and the classification.                                 *)
(***************************************************************************)
\* format!("{}.{}", fname, ext)
FormatNameExt(fname, ext) == fname \o <<".">> \o ext

\* build_keep_art_file_list with the test of delete_art inverted.
build_keep_art_file_list_inverted(delete_art) ==
    IF ~delete_art THEN << >>
    ELSE [ k \in 1..(Len(ALBUM_ART_FILENAMES) * Len(ALBUM_ART_EXTENSIONS)) |->
            FormatNameExt(
                ALBUM_ART_FILENAMES[((k - 1) \div Len(ALBUM_ART_EXTENSIONS)) + 1],
                ALBUM_ART_EXTENSIONS[((k - 1) % Len(ALBUM_ART_EXTENSIONS)) + 1]) ]

\* build_keep_art_file_list
build_keep_art_file_list(delete_art) ==
    IF delete_art THEN << >>
    ELSE [ k \in 1..(Len(ALBUM_ART_FILENAMES) * Len(ALBUM_ART_EXTENSIONS)) |->
            FormatNameExt(
                ALBUM_ART_FILENAMES[((k - 1) \div Len(ALBUM_ART_EXTENSIONS)) + 1],
                ALBUM_ART_EXTENSIONS[((k - 1) % Len(ALBUM_ART_EXTENSIONS)) + 1]) ]

\* build_keep_extensions_list
build_keep_extensions_list(keep_other_audio, keep_documents) ==
    MUSIC_FILE_TYPES
    \o (IF keep_other_audio THEN AUDIO_FILE_TYPES ELSE << >>)
    \o (IF keep_documents THEN DOCUMENT_FILE_TYPES ELSE << >>)

\* get_actual_extensions: the keep extensions that occur in the library, each
\* once, in order of first occurrence.  The loop pushes the extension of
\* entry i when it is a keep extension and is not yet in the list, that is,
\* when no earlier entry has it.
get_actual_extensions(library_paths, keep_other_audio, keep_documents) ==
    LET keep_extensions == build_keep_extensions_list(keep_other_audio, keep_documents)
        ext == [ i \in 1..Len(library_paths) |->
                   to_lowercase(
                       opt_osstr_to_string(extension(library_paths[i]), NO_EXTENSION)) ]
        pushed == SelectSeq([ i \in 1..Len(library_paths) |-> i ],
                            LAMBDA i : /\ \A j \in 1..(i - 1) : ext[j] # ext[i]
                                       /\ Contains(keep_extensions, ext[i]))
    IN  [ k \in 1..Len(pushed) |-> ext[pushed[k]] ]

\* is_resource_fork with the second character left unchecked.
is_resource_fork_first_char_only(fname) ==
    IF Len(fname) < 2 THEN FALSE
    ELSE IF (IF Len(fname) >= 1 THEN fname[1] ELSE NO_CHAR) # RES_FORK_1 THEN FALSE
    ELSE TRUE

\* is_resource_fork: the name starts with "._".
is_resource_fork(fname) ==
    IF Len(fname) < 2 THEN FALSE
    ELSE IF (IF Len(fname) >= 1 THEN fname[1] ELSE NO_CHAR) # RES_FORK_1 THEN FALSE
    ELSE IF (IF Len(fname) >= 2 THEN fname[2] ELSE NO_CHAR) # RES_FORK_2 THEN FALSE
    ELSE TRUE

\* The body of the loop of build_purge_file_list: TRUE when file is skipped.
SkipFile(f, file, art_file_list, actual_extensions) ==
    LET fname == opt_osstr_to_string(file_name(file), NO_FILE_NAME) IN
    \/ is_dir(f, file)
    \/ is_resource_fork(fname)
    \/ Contains(art_file_list, to_lowercase(fname))
    \/ Contains(actual_extensions,
                to_lowercase(opt_osstr_to_string(extension(file), NO_EXTENSION)))

\* build_purge_file_list
build_purge_file_list(f, library_paths, delete_art, keep_other_audio, keep_documents) ==
    LET art_file_list == build_keep_art_file_list(delete_art)
        actual_extensions ==
            get_actual_extensions(library_paths, keep_other_audio, keep_documents)
    IN  SelectSeq(library_paths,
                  LAMBDA file : ~SkipFile(f, file, art_file_list, actual_extensions))

(***************************************************************************)
(* The executor: backup_file and purge_or_backup_file.                     *)
(* A call yields [ok, path, fs, eprint]: Ok(path) or Err(path), the file   *)
(* system it leaves, and the message it wrote to stderr ("" for none).     *)
(* io = [mkdirs, copy, remove] are the outcomes the system gives to the    *)
(* calls of std::fs the function makes.                                    *)
(***************************************************************************)
COULD_NOT_CREATE == "Could not create target directory"
COULD_NOT_BACKUP == "Could not backup"
COULD_NOT_PURGE == "Could not purge"

Ok(path, f) == [ok |-> TRUE, path |-> path, fs |-> f, eprint |-> ""]

Err(path, f, msg) == [ok |-> FALSE, path |-> path, fs |-> f, eprint |-> msg]

\* backup_file falling back to the candidate's file name, not to NO_PATH, when
\* the library path is not a prefix of the candidate.
backup_file_fallback_file_name(f, path, library_path, backup_path, io) ==
    LET relative_source_path ==
            unwrap_or(strip_prefix(path, library_path), << path[Len(path)] >>)
        target_path == join(backup_path, relative_source_path)
        target_dir == parent(target_path).val
        made == IF ~exists(f, target_dir)
                THEN create_dir_all(f, target_dir, io.mkdirs)
                ELSE [ok |-> TRUE, fs |-> f]
        copied == copy(made.fs, path, target_path, io.copy)
    IN  IF ~made.ok THEN Err(target_dir, made.fs, COULD_NOT_CREATE)
        ELSE IF copied.ok THEN Ok(target_path, copied.fs)
        ELSE Err(target_path, copied.fs, COULD_NOT_BACKUP)

\* backup_file.  backup_path passed the start-up check, so target_path is
\* never empty and parent().unwrap() does not panic.
backup_file(f, path, library_path, backup_path, io) ==
    LET relative_source_path == unwrap_or(strip_prefix(path, library_path), NO_PATH)
        target_path == join(backup_path, relative_source_path)
        target_dir == parent(target_path).val
        made == IF ~exists(f, target_dir)
                THEN create_dir_all(f, target_dir, io.mkdirs)
                ELSE [ok |-> TRUE, fs |-> f]
        copied == copy(made.fs, path, target_path, io.copy)
    IN  IF ~made.ok THEN Err(target_dir, made.fs, COULD_NOT_CREATE)
        ELSE IF copied.ok THEN Ok(target_path, copied.fs)
        ELSE Err(target_path, copied.fs, COULD_NOT_BACKUP)

\* purge_or_backup_file with the backup taken whenever a backup path was
\* given ("if backup" for "if backup && purge").
purge_or_backup_file_backup_unguarded(f, path, library_path, backup_path, backup, purge, io) ==
    LET backed == IF backup
                  THEN backup_file(f, path, library_path, backup_path, io)
                  ELSE Ok(path, f)
        removed == remove_file(backed.fs, path, io.remove)
    IN  IF ~backed.ok THEN Err(path, backed.fs, backed.eprint)
        ELSE IF purge
        THEN (IF ~removed.ok THEN Err(path, removed.fs, COULD_NOT_PURGE)
              ELSE Ok(path, removed.fs))
        ELSE Ok(path, backed.fs)

\* purge_or_backup_file
purge_or_backup_file(f, path, library_path, backup_path, backup, purge, io) ==
    LET backed == IF backup /\ purge
                  THEN backup_file(f, path, library_path, backup_path, io)
                  ELSE Ok(path, f)
        removed == remove_file(backed.fs, path, io.remove)
    IN  IF ~backed.ok THEN Err(path, backed.fs, backed.eprint)
        ELSE IF purge
        THEN (IF ~removed.ok THEN Err(path, removed.fs, COULD_NOT_PURGE)
              ELSE Ok(path, removed.fs))
        ELSE Ok(path, backed.fs)

(***************************************************************************)
(* The file systems and command lines the runs start from.                 *)
(***************************************************************************)
LIB == << <<"l","i","b">> >>
BAK == << <<"b","a","k">> >>
LIB_BK == << <<"l","i","b">>, <<"b","k">> >>
DOT_LIB == << <<".">>, <<"l","i","b">> >>
NO_LIB == << <<"n","o","l","i","b">> >>
NO_BAK == << <<"n","o","b","a","k">> >>

MUSIC_MP3 == << <<"m","u","s","i","c",".","m","p","3">> >>
AUDIO_AU == << <<"a","u","d","i","o",".","a","u">> >>
DOC_TXT == << <<"d","o","c",".","t","x","t">> >>
ALBUM_JPG == << <<"a","l","b","u","m",".","j","p","g">> >>
README == << <<"R","E","A","D","M","E">> >>
HIDDEN == << <<".","h","i","d","d","e","n">> >>
SUB_FORK == << <<"s","u","b">>, <<".","_","x",".","t","m","p">> >>
SUB_COVER == << <<"s","u","b">>, <<"C","o","v","e","r",".","J","P","G">> >>
BK_OLD == << <<"b","k">>, <<"o","l","d",".","t","m","p">> >>
AD_T_MP3 == << <<"a",".","d">>, <<"T",".","M","P","3">> >>
SUB_CD1_LOG == << <<"s","u","b">>, <<"c","d","1">>, <<"r","i","p",".","l","o","g">> >>

\* The files a library is drawn from: path below the library root and
\* contents.  music.mp3 is a zero-length file.
FILE_UNIVERSE ==
    { [path |-> MUSIC_MP3, data |-> << >>],
      [path |-> AUDIO_AU, data |-> <<2>>],
      [path |-> DOC_TXT, data |-> <<3>>],
      [path |-> ALBUM_JPG, data |-> <<4>>],
      [path |-> README, data |-> <<5>>],
      [path |-> HIDDEN, data |-> <<6>>],
      [path |-> SUB_FORK, data |-> <<7>>],
      [path |-> SUB_COVER, data |-> <<8>>],
      [path |-> BK_OLD, data |-> <<9>>],
      [path |-> AD_T_MP3, data |-> <<10>>],
      [path |-> SUB_CD1_LOG, data |-> <<11>>] }

\* The library of setup_test_files: one file per category.
TEST_LIBRARY ==
    { r \in FILE_UNIVERSE : r.path \in {MUSIC_MP3, AUDIO_AU, DOC_TXT, ALBUM_JPG} }

Libraries == { S \in SUBSET FILE_UNIVERSE : Cardinality(S) <= MaxFiles } \cup {TEST_LIBRARY}

\* The file system holding library S below LIB, an earlier backup of doc.txt
\* below BAK, and the directory LIB_BK when nested is set.
InitialFs(S, nested) ==
    LET files == { join(LIB, r.path) : r \in S } \cup { join(BAK, DOC_TXT) }
        dirs == {LIB, BAK}
                \cup UNION { { SubSeq(p, 1, i) : i \in 1..(Len(p) - 1) } : p \in files }
                \cup (IF nested THEN {LIB_BK} ELSE {})
        dataOf(p) == IF p = join(BAK, DOC_TXT) THEN <<1>>
                     ELSE (CHOOSE r \in S : join(LIB, r.path) = p).data
    IN  [ p \in files \cup dirs |-> IF p \in files THEN FileOf(dataOf(p)) ELSE DIR ]

\* The parsed command lines (struct Args without verbose, which only
\* selects what is printed).  --list-types conflicts with every other
\* argument.
ArgsSet ==
    [ library_path : {Some(LIB), Some(DOT_LIB), Some(NO_LIB)},
      backup_path : {None, Some(BAK), Some(LIB), Some(LIB_BK), Some(NO_BAK)},
      purge : BOOLEAN, art : BOOLEAN, other_audio : BOOLEAN, documents : BOOLEAN,
      list_types : {FALSE} ]
    \cup
    { [ library_path |-> None, backup_path |-> None, purge |-> FALSE, art |-> FALSE,
        other_audio |-> FALSE, documents |-> FALSE, list_types |-> TRUE ] }

(***************************************************************************)
(* main as a state machine.                                                *)
(***************************************************************************)
VARIABLES
    args,             \* the parsed command line
    fs,               \* the file system
    pc,               \* the position of main
    library_paths,    \* the result of get_library_paths
    purge_file_list,  \* the result of build_purge_file_list
    err_count,        \* main's err_count
    proc_count,       \* main's proc_count
    outcomes,         \* per call of purge_or_backup_file, in call order: the file
                      \* passed, the result (ok, path) and the stderr message
    exit_code,        \* the argument of exit(), -1 while running
    pre_fs            \* the file system before the latest call of purge_or_backup_file

vars == << args, fs, pc, library_paths, purge_file_list, err_count, proc_count,
           outcomes, exit_code, pre_fs >>

library_path == unwrap_or(args.library_path, NO_PATH)

backup_enabled == args.backup_path.some

backup_root == unwrap_or(args.backup_path, NO_PATH)

\* main's op
op == IF args.purge /\ backup_enabled THEN BACKUP
      ELSE IF args.purge THEN PURGE ELSE SIMULATE

IoOutcomes ==
    [ mkdirs : 0..MaxMkdirs, copy : {"ok", "fail_open", "fail_write"}, remove : {"ok", "fail"} ]

Init ==
    /\ args \in ArgsSet
    /\ \E S \in Libraries :
          fs = InitialFs(S, args.backup_path = Some(LIB_BK))
    /\ pc = "start"
    /\ library_paths = << >>
    /\ purge_file_list = << >>
    /\ err_count = 0
    /\ proc_count = 0
    /\ outcomes = << >>
    /\ exit_code = -1
    /\ pre_fs = fs

\* main, lines 144-148: --list-types prints the tables and exits.
ListTypes ==
    /\ pc = "start"
    /\ args.list_types
    /\ pc' = "exit_list_types"
    /\ exit_code' = SUCCESS
    /\ UNCHANGED << args, fs, library_paths, purge_file_list, err_count, proc_count,
                    outcomes, pre_fs >>

\* main, lines 152-157: the library path must exist.
CheckLibraryPath ==
    /\ pc = "start"
    /\ ~args.list_types
    /\ IF ~exists(fs, library_path)
       THEN pc' = "exit_no_library" /\ exit_code' = PATH_DOES_NOT_EXIST
       ELSE pc' = "check_backup" /\ exit_code' = exit_code
    /\ UNCHANGED << args, fs, library_paths, purge_file_list, err_count, proc_count,
                    outcomes, pre_fs >>

\* main, lines 159-167: a backup path, when given, must exist.
CheckBackupPath ==
    /\ pc = "check_backup"
    /\ IF backup_enabled /\ ~exists(fs, backup_root)
       THEN pc' = "exit_no_backup" /\ exit_code' = PATH_DOES_NOT_EXIST
       ELSE pc' = "enumerate" /\ exit_code' = exit_code
    /\ UNCHANGED << args, fs, library_paths, purge_file_list, err_count, proc_count,
                    outcomes, pre_fs >>

\* main, lines 169-170.
GetLibraryPaths ==
    /\ pc = "enumerate"
    /\ library_paths' = get_library_paths(fs, library_path)
    /\ pc' = "classify"
    /\ UNCHANGED << args, fs, purge_file_list, err_count, proc_count, outcomes,
                    exit_code, pre_fs >>

\* main, lines 172-174.
BuildPurgeFileList ==
    /\ pc = "classify"
    /\ purge_file_list' =
           build_purge_file_list(fs, library_paths, args.art, args.other_audio,
                                 args.documents)
    /\ pc' = "loop"
    /\ UNCHANGED << args, fs, library_paths, err_count, proc_count, outcomes,
                    exit_code, pre_fs >>

\* The loop body with "err_count = 1" for "err_count += 1".
LoopBody_err_assigned(counts, r) ==
    [ proc_count |-> counts.proc_count + 1,
      err_count |-> IF r.ok THEN counts.err_count ELSE 1 ]

\* One iteration of the loop of main over purge_file_list, given the result
\* r of its call of purge_or_backup_file: the counters after it.
LoopBody(counts, r) ==
    [ proc_count |-> counts.proc_count + 1,
      err_count |-> IF r.ok THEN counts.err_count ELSE counts.err_count + 1 ]

\* main, lines 197-218: the next file of purge_file_list is processed.
ProcessFile ==
    /\ pc = "loop"
    /\ proc_count < Len(purge_file_list)
    /\ \E io \in IoOutcomes :
          LET file == purge_file_list[proc_count + 1]
              r == purge_or_backup_file(fs, file, library_path, backup_root,
                                        backup_enabled, args.purge, io)
              c == LoopBody([proc_count |-> proc_count, err_count |-> err_count], r)
          IN  /\ pre_fs' = fs
              /\ fs' = r.fs
              /\ outcomes' = Append(outcomes, [ok |-> r.ok, path |-> r.path,
                                                file |-> file, eprint |-> r.eprint])
              /\ proc_count' = c.proc_count
              /\ err_count' = c.err_count
    /\ UNCHANGED << args, pc, library_paths, purge_file_list, exit_code >>

\* main, lines 220-231: after the last file, exit(err_count).
Exit ==
    /\ pc = "loop"
    /\ proc_count = Len(purge_file_list)
    /\ pc' = "exit_end"
    /\ exit_code' = err_count
    /\ UNCHANGED << args, fs, library_paths, purge_file_list, err_count, proc_count,
                    outcomes, pre_fs >>

Next ==
    \/ ListTypes
    \/ CheckLibraryPath
    \/ CheckBackupPath
    \/ GetLibraryPaths
    \/ BuildPurgeFileList
    \/ ProcessFile
    \/ Exit

Spec == Init /\ [][Next]_vars

(***************************************************************************)
(* The long run: main with --purge on a read-only library of MaxCandidates *)
(* crud files f001.tmp, f002.tmp, ...: every remove_file is refused.       *)
(***************************************************************************)
\* The width of the exit status the invoking process is given by the
\* system: the low 8 bits of the argument of exit().
STATUS_BITS == 8

\* The exit status the invoking process observes.
ExitStatus == exit_code % (2 ^ STATUS_BITS)

Digits == SubSeq(ByteOrder, 2, 11)

CrudName(k) ==
    << "f", Digits[((k \div 100) % 10) + 1], Digits[((k \div 10) % 10) + 1],
       Digits[(k % 10) + 1], ".", "t", "m", "p" >>

LongLibraryFs ==
    [ p \in {LIB} \cup { join(LIB, << CrudName(k) >>) : k \in 1..MaxCandidates } |->
        IF p = LIB THEN DIR ELSE FileOf(<<0>>) ]

InitLong ==
    /\ args = [ library_path |-> Some(LIB), backup_path |-> None, purge |-> TRUE,
                art |-> FALSE, other_audio |-> FALSE, documents |-> FALSE,
                list_types |-> FALSE ]
    /\ fs = LongLibraryFs
    /\ pc = "start"
    /\ library_paths = << >>
    /\ purge_file_list = << >>
    /\ err_count = 0
    /\ proc_count = 0
    /\ outcomes = << >>
    /\ exit_code = -1
    /\ pre_fs = fs

\* main, lines 197-218, on the read-only library: the file system refuses
\* the remove_file of the call.
ProcessFileReadOnly ==
    /\ ProcessFile
    /\ fs' = fs

NextLong ==
    \/ CheckLibraryPath
    \/ CheckBackupPath
    \/ GetLibraryPaths
    \/ BuildPurgeFileList
    \/ ProcessFileReadOnly
    \/ Exit

SpecLong == InitLong /\ [][NextLong]_vars

TypeOK ==
    /\ pc \in {"start", "check_backup", "enumerate", "classify", "loop",
               "exit_list_types", "exit_no_library", "exit_no_backup", "exit_end"}
    /\ err_count \in 0..Len(purge_file_list)
    /\ proc_count \in 0..Len(purge_file_list)
    /\ Len(outcomes) = proc_count

(***************************************************************************)
(* Properties.                                                             *)
(***************************************************************************)
\* The latest call of purge_or_backup_file, when there has been one.
last == outcomes[proc_count]

Failures == { i \in 1..Len(outcomes) : ~outcomes[i].ok }

\* C1: while the purge flag is off, with or without a backup root, a call
\* of purge_or_backup_file leaves every path of the file system as it was
\* (same entries, same contents, nothing copied) and returns Ok with the
\* candidate's own path.
C1_SimulateLeavesFsUntouched ==
    (~args.purge /\ proc_count > 0) =>
        /\ fs = pre_fs
        /\ last.ok
        /\ last.path = last.file
        /\ last.path = purge_file_list[proc_count]

\* C1 witness: a candidate was processed with a backup root given and the
\* purge flag off.
C1_Witness ==
    /\ ~args.purge
    /\ backup_enabled
    /\ proc_count > 0
    /\ last.file \in DOMAIN fs

\* C2: in backup+purge mode, when creating the target directory or copying
\* fails, the call returns Failed, the delete is not attempted, and the
\* original file still exists with the contents it had before the call.
C2_FailedBackupLeavesOriginal ==
    (/\ op = BACKUP
     /\ proc_count > 0
     /\ last.eprint \in {COULD_NOT_CREATE, COULD_NOT_BACKUP}) =>
        /\ ~last.ok
        /\ is_file(fs, last.file)
        /\ fs[last.file] = pre_fs[last.file]

\* C3: when a backup+purge call on the candidate L/r returns success, B/r is
\* a file with the contents L/r had before the call, every directory on the
\* way to B/r exists, and L/r no longer exists.
C3_BackupThenPurge ==
    (op = BACKUP /\ proc_count > 0 /\ last.ok) =>
        LET r == strip_prefix(last.file, library_path)
            target == join(backup_root, r.val)
        IN  /\ r.some
            /\ is_file(fs, target)
            /\ fs[target].data = pre_fs[last.file].data
            /\ \A i \in 1..(Len(target) - 1) : is_dir(fs, SubSeq(target, 1, i))
            /\ ~exists(fs, last.file)

\* C4: the candidates are processed once each in list order whatever failed
\* before, and when the loop has ended proc_count is the number of
\* candidates and err_count the number of calls that returned Failed.
C4_EveryCandidateProcessed ==
    /\ Len(outcomes) = proc_count
    /\ proc_count <= Len(purge_file_list)
    /\ \A i \in 1..proc_count : outcomes[i].file = purge_file_list[i]
    /\ pc = "exit_end" =>
          /\ proc_count = Len(purge_file_list)
          /\ err_count = Cardinality(Failures)

\* C4 witness: a run has ended in which the first of several candidates
\* failed and a later one failed too.
C4_Witness ==
    /\ pc = "exit_end"
    /\ proc_count >= 2
    /\ 1 \in Failures
    /\ Cardinality(Failures) >= 2

\* C5: the exit status of a run that passed the start-up checks is never the
\* status used for a missing library or backup root.
C5_MissingRootStatusDistinct ==
    pc = "exit_end" => exit_code # PATH_DOES_NOT_EXIST

\* The classification has just been made: the loop has not started.
Classified == pc = "loop" /\ proc_count = 0

\* The entries below the library root.
LibraryEntries == { p \in DOMAIN fs : IsPrefix(library_path, p) /\ p # library_path }

\* C6: an enumerated entry is in the purge list exactly when it is not a
\* directory, its base name does not begin with "._", its lowercased base
\* name is not an art name kept under deleteArt, and its lowercased
\* extension is not a keep extension of the policy; the purge list holds
\* enumerated entries only.
C6_PurgeIffNotKept ==
    Classified =>
        /\ \A i \in 1..Len(library_paths) :
              LET e == library_paths[i]
                  n == e[Len(e)]
                  ext == unwrap_or(extension(e), << >>)
              IN  Contains(purge_file_list, e) <=>
                     /\ ~is_dir(fs, e)
                     /\ ~(Len(n) >= 2 /\ n[1] = "." /\ n[2] = "_")
                     /\ to_lowercase(n) \notin Range(build_keep_art_file_list(args.art))
                     /\ to_lowercase(ext) \notin
                            Range(build_keep_extensions_list(args.other_audio,
                                                             args.documents))
        /\ Range(purge_file_list) \subseteq Range(library_paths)

\* C6 witness: a classified library with an enumerated directory, a kept
\* file with an upper-case keep extension and a hidden purge candidate.
C6_Witness ==
    /\ Classified
    /\ \E i \in 1..Len(library_paths) : is_dir(fs, library_paths[i])
    /\ Contains(library_paths, join(LIB, AD_T_MP3))
    /\ ~Contains(purge_file_list, join(LIB, AD_T_MP3))
    /\ Contains(purge_file_list, join(LIB, HIDDEN))

\* The library holds exactly music.mp3, audio.au, doc.txt and album.jpg.
IsTestLibrary ==
    LibraryEntries = { join(LIB, n) : n \in {MUSIC_MP3, AUDIO_AU, DOC_TXT, ALBUM_JPG} }

\* C7 as stated: for the library of music.mp3, audio.au, doc.txt and
\* album.jpg, with only keepOtherAudio on, the purge set is
\* {album.jpg, doc.txt}.
C7_OnlyKeepOtherAudio_Original ==
    (/\ Classified
     /\ IsTestLibrary
     /\ args.other_audio /\ ~args.art /\ ~args.documents) =>
        Range(purge_file_list) = { join(LIB, ALBUM_JPG), join(LIB, DOC_TXT) }

\* C7 amended: for that library, with only keepOtherAudio on, album.jpg is
\* kept as folder art and the purge set is {doc.txt}; it is
\* {album.jpg, doc.txt} when deleteArt is on as well.
C7_OnlyKeepOtherAudio ==
    (/\ Classified
     /\ IsTestLibrary
     /\ args.other_audio /\ ~args.documents) =>
        /\ ~args.art => Range(purge_file_list) = { join(LIB, DOC_TXT) }
        /\ args.art =>
              Range(purge_file_list) = { join(LIB, ALBUM_JPG), join(LIB, DOC_TXT) }
        /\ Len(purge_file_list) = Cardinality(Range(purge_file_list))

\* C7 witness: that library classified with only keepOtherAudio on.
C7_Witness ==
    /\ Classified
    /\ IsTestLibrary
    /\ args.other_audio /\ ~args.art /\ ~args.documents
    /\ Len(library_paths) = 4

\* C8: the keep extension list has 17 entries, plus 28 with keepOtherAudio,
\* plus 2 with keepDocuments, and no extension occurs in it twice.
C8_KeepExtensionsNoDuplicates ==
    Classified =>
        LET l == build_keep_extensions_list(args.other_audio, args.documents) IN
        /\ Len(l) = 17 + (IF args.other_audio THEN 28 ELSE 0)
                       + (IF args.documents THEN 2 ELSE 0)
        /\ \A i, j \in 1..Len(l) : i # j => l[i] # l[j]

\* C9: every file and directory below the library root, at any depth, is
\* among the paths get_library_paths returned.
C9_EveryEntryEnumerated ==
    pc = "classify" => \A p \in LibraryEntries : Contains(library_paths, p)

\* C10: wherever the backup root lies, nothing that existed below it before
\* a call of purge_or_backup_file is missing after the call.
C10_NothingDeletedUnderBackupRoot ==
    (backup_enabled /\ proc_count > 0) =>
        \A p \in DOMAIN pre_fs : IsPrefix(backup_root, p) => p \in DOMAIN fs

\* The purge list a run of main with the same arguments would build from
\* the file system as it is now.
RerunPurgeList ==
    build_purge_file_list(fs, get_library_paths(fs, library_path), args.art,
                          args.other_audio, args.documents)

\* The candidates whose call of purge_or_backup_file purged them.
Purged == { outcomes[i].file : i \in { j \in 1..Len(outcomes) : outcomes[j].ok /\ args.purge } }

\* C11: after a purge run, with or without a backup root, in which no file
\* failed, a second run with the same arguments finds no purge candidate.
C11_SecondRunFindsNothing ==
    (pc = "exit_end" /\ args.purge /\ err_count = 0) => RerunPurgeList = << >>

\* C12: in backup+purge mode, when creating the backup directory or copying
\* fails, the Failed result of purge_or_backup_file carries the target path
\* below the backup root that the copy was meant for.
C12_FailedCarriesTargetPath ==
    (/\ op = BACKUP
     /\ proc_count > 0
     /\ last.eprint \in {COULD_NOT_CREATE, COULD_NOT_BACKUP}) =>
        /\ ~last.ok
        /\ last.path =
              join(backup_root,
                   unwrap_or(strip_prefix(last.file, library_path), NO_PATH))

\* C14: whenever the loop is between two candidates (or has ended),
\* enumerating and classifying again with the same policy yields exactly the
\* candidates of the run that were not yet purged, and no path that was not
\* a candidate of the run.
C14_RerunYieldsRemainingCandidates ==
    (pc \in {"loop", "exit_end"}) =>
        /\ Range(RerunPurgeList) \subseteq Range(purge_file_list)
        /\ Range(RerunPurgeList) = Range(purge_file_list) \ Purged

\* C15: when the library path is not a prefix of the candidate, a
\* backup+purge call fails at the copy (whose target is the backup root
\* itself), creates and overwrites nothing, and leaves the original file in
\* place.
C15_NoPrefixFailsSafely ==
    (/\ op = BACKUP
     /\ proc_count > 0
     /\ ~strip_prefix(last.file, library_path).some) =>
        /\ ~last.ok
        /\ last.eprint = COULD_NOT_BACKUP
        /\ fs = pre_fs
        /\ is_file(fs, last.file)

\* C15 witness: a candidate yielded for the library path "./lib" was
\* processed in backup+purge mode.
C15_Witness ==
    /\ op = BACKUP
    /\ proc_count > 0
    /\ library_path = DOT_LIB
    /\ ~strip_prefix(last.file, library_path).some
    /\ is_file(pre_fs, last.file)

\* C13: a run that passed the start-up checks ends with status zero exactly
\* when no candidate failed, and otherwise with the number of failed
\* candidates as its status, however many failed.
C13_StatusIsFailureCount ==
    pc = "exit_end" =>
        /\ ExitStatus = 0 <=> Failures = {}
        /\ Failures # {} => ExitStatus = Cardinality(Failures)

====
